---------------------------- MODULE Spec2Model ----------------------------
(***************************************************************************)
(* AlphApexManager: the template engine of alpha_manager/directory_manager *)
(* (validate, modify, generate, clone) and the polling watcher of          *)
(* alpha_manager/windows_service.                                          *)
(*                                                                         *)
(* Strings are sequences of one-character strings, so that str.replace,    *)
(* the "in" substring test and f-string formatting are computed, not       *)
(* assumed.  A path is a sequence of path components.                      *)
(***************************************************************************)
EXTENDS Integers, Sequences, FiniteSets, TLC

VARIABLES
    template,        \* the template document the engine holds (load_template's result)
    project_number,  \* the project_number argument
    project_name,    \* the project_name argument
    prev,            \* the document as it was before the latest engine call
    calls,           \* engine calls made so far
    op,              \* the engine function called last
    outcome,         \* how the latest engine call ended
    errors,          \* the error list of the latest validate_template
    fs,              \* the filesystem under the output directory
    fs0,             \* the filesystem before the latest engine call
    sources,         \* the template source files that exist
    printed          \* the messages the latest engine call printed

engineVars == <<template, project_number, project_name, prev, calls, op,
                outcome, errors, fs, fs0, sources, printed>>

VARIABLES
    running,         \* self.running
    pc,              \* where monitor_directory stands
    seen_files,      \* the set seen_files of monitor_directory
    seen_log,        \* the lines of SEEN_FILES_LOG, or NoLog
    watch_dir,       \* the *.json files of WATCH_DIRECTORY: name -> descriptor
    new_files,       \* the part of new_files the for loop has not reached
    cycle_new,       \* new_files as the poll cycle computed it
    filename,        \* the file run_directory_manager is working on
    checks,          \* directory checks made in the wait loop
    out_dirs,        \* the project directories under OUTPUT_DIR
    project_vars,    \* project directory -> descriptor in its project_vars.json
    history,         \* per file name: what the watcher did with it
    cycles,          \* poll cycles begun
    drops            \* files the environment has dropped or removed

watchVars == <<running, pc, seen_files, seen_log, watch_dir, new_files,
               cycle_new, filename, checks, out_dirs, project_vars, history,
               cycles, drops>>

VARIABLES
    path_kind,       \* what each path is on disk
    tree,            \* the directory tree under each path that is a directory
    store,           \* TEMPLATES_DIR: file name -> saved document
    store0,          \* the store before the last clone_directory
    source_dir,      \* source_dir of the last clone_directory
    clone_name,      \* output_template_name of the last clone_directory
    clone_outcome,   \* how the last clone_directory ended
    clone_printed    \* what the last clone_directory printed

cloneVars == <<path_kind, tree, store, store0, source_dir, clone_name,
               clone_outcome, clone_printed>>

VARIABLES
    query,           \* query of the last search_template
    results,         \* the keys the last search_template collected
    defaults_dir,    \* DEFAULT_TEMPLATES_DIR: file name -> document
    user_created_dir,\* USER_CREATED_DIR: file name -> document
    listed,          \* what the last list_templates returned
    loaded           \* what load_template returned for each listed name

toolVars == <<query, results, defaults_dir, user_created_dir, listed, loaded>>

vars == <<engineVars, watchVars, cloneVars, toolVars>>

-----------------------------------------------------------------------------
(* Bounds of the model.                                                    *)

MaxNameLen == 7
MaxNumLen == 3
MaxEntries == 2
MaxGenEntries == 2
MaxCycles == 2
MaxDrops == 2
MaxSearchEntries == 2

-----------------------------------------------------------------------------
(* Strings.                                                                *)

\* All strings over alphabet A of length at most n.
StrUpTo(A, n) == UNION {[1..k -> A] : k \in 0..n}

\* The placeholder token "xxxxx" of modify_template.
Token == <<"x", "x", "x", "x", "x">>

\* Python's None, kept apart from every string.
NONE == <<"<None>">>

\* str(v) as an f-string formats it.
PyStr(v) == IF v = NONE THEN <<"N", "o", "n", "e">> ELSE v

\* Python truthiness of an optional string.
Truthy(v) == v # NONE /\ v # <<>>

\* old in s, for strings.
Contains(s, old) ==
    \E i \in 1..(Len(s) - Len(old) + 1) : SubSeq(s, i, i + Len(old) - 1) = old

\* A mis-scan of str.replace that stops after the first occurrence.
RECURSIVE ReplaceFirst(_, _, _)
ReplaceFirst(s, old, new) ==
    IF Len(s) < Len(old) THEN s
    ELSE IF SubSeq(s, 1, Len(old)) = old
         THEN new \o SubSeq(s, Len(old) + 1, Len(s))
         ELSE <<Head(s)>> \o ReplaceFirst(Tail(s), old, new)

\* s.replace(old, new) for a non-empty old: CPython scans from the left and
\* replaces every non-overlapping occurrence.
RECURSIVE PyReplace(_, _, _)
PyReplace(s, old, new) ==
    IF Len(s) < Len(old) THEN s
    ELSE IF SubSeq(s, 1, Len(old)) = old
         THEN new \o PyReplace(SubSeq(s, Len(old) + 1, Len(s)), old, new)
         ELSE <<Head(s)>> \o PyReplace(Tail(s), old, new)

-----------------------------------------------------------------------------
(* Template documents, as json.load returns them.                          *)
(*                                                                         *)
(* Every value is a record of one shape; a key that is absent keeps a      *)
(* default value behind a has* flag, a value of the wrong JSON type is     *)
(* null (isDict or isList is FALSE).  A top-level document is a JSON       *)
(* object (top = "dict") or a JSON array of strings (top = "list"), for    *)
(* which hasMain and hasSubs say whether the array holds these strings;    *)
(* top = "none" is the None that load_template returns for a missing file. *)

FileEntry(isDict, hasName, name, hasType, type, hasSource, source) ==
    [isDict |-> isDict, hasName |-> hasName, name |-> name,
     hasType |-> hasType, type |-> type,
     hasSource |-> hasSource, source |-> source]

\* {"name": name, "type": "empty"}
EmptyFile(name) == FileEntry(TRUE, TRUE, name, TRUE, "empty", FALSE, <<>>)

\* {"name": name, "type": "template", "source": source}
TemplateFile(name, source) ==
    FileEntry(TRUE, TRUE, name, TRUE, "template", TRUE, source)

Contents(isDict, hasFiles, isList, files) ==
    [isDict |-> isDict, hasFiles |-> hasFiles, isList |-> isList, files |-> files]

\* {"files": files}
FilesOf(files) == Contents(TRUE, TRUE, TRUE, files)

Subdir(key, contents) == [key |-> key, contents |-> contents]

Document(top, hasMain, main, hasSubs, subsIsDict, subs) ==
    [top |-> top, hasMain |-> hasMain, main_directory |-> main,
     hasSubs |-> hasSubs, subsIsDict |-> subsIsDict, subdirectories |-> subs]

\* None, as load_template returns it when the file does not exist.
NoDocument == Document("none", FALSE, <<>>, FALSE, FALSE, <<>>)

\* {"main_directory": main, "subdirectories": {...}}
TemplateOf(main, subs) == Document("dict", TRUE, main, TRUE, TRUE, subs)

-----------------------------------------------------------------------------
(* The filesystem under the output directory.  dirs is the set of          *)
(* directories, files maps the path of each regular file to its content;   *)
(* the output directory itself is the empty path.                          *)

EmptyFs == [dirs |-> {}, files |-> <<>>]

\* Path(p) / c: joining an empty string leaves the path as it is.
JoinPath(p, c) == IF c = <<>> THEN p ELSE Append(p, c)

\* The path itself and the directories above it, the output directory aside.
Prefixes(p) == {SubSeq(p, 1, k) : k \in 1..Len(p)}

\* os.makedirs(p, exist_ok=True): FileExistsError when a regular file is in
\* the way, else p and the directories above it exist afterwards.
MakeDirs(f, p) ==
    IF \E q \in Prefixes(p) : q \in DOMAIN f.files
    THEN [raised |-> TRUE, fs |-> f]
    ELSE [raised |-> FALSE, fs |-> [f EXCEPT !.dirs = @ \cup Prefixes(p)]]

\* Path.touch(): an existing file or directory only gets a new timestamp,
\* a missing one is created with no content.
Touch(f, p) ==
    IF p \in f.dirs \/ p \in DOMAIN f.files \/ p = <<>>
    THEN f
    ELSE [f EXCEPT !.files = (p :> <<>>) @@ @]

\* The bytes of an existing source file, told apart by its path.
SourceContent(source) == source

\* shutil.copy(source, p): writes the bytes of source to p, or into p under
\* the name of the source when p is a directory.
Copy(f, source, p) ==
    LET dst == IF p \in f.dirs \/ p = <<>> THEN Append(p, source) ELSE p
    IN [f EXCEPT !.files = (dst :> SourceContent(source)) @@ @]

-----------------------------------------------------------------------------
(* modify_template.                                                        *)

\* A main_directory built as the docstring words it, number first.
MainDirNumberFirst(pnumber, pname) == PyStr(pnumber) \o <<"-">> \o PyStr(pname)

\* f"{project_name}-{project_number}"
MainDirectoryName(pnumber, pname) == PyStr(pname) \o <<"-">> \o PyStr(pnumber)

\* The body of the loop over contents["files"]: one file entry.
\* "name" in None and str.replace(.., None) raise TypeError.
ModifyFile(file, pnumber) ==
    IF ~file.isDict THEN [raised |-> TRUE, file |-> file]
    ELSE IF file.hasName /\ Contains(file.name, Token)
         THEN IF pnumber = NONE
              THEN [raised |-> TRUE, file |-> file]
              ELSE [raised |-> FALSE,
                    file |-> [file EXCEPT
                                 !.name = PyReplace(file.name, Token, pnumber)]]
         ELSE [raised |-> FALSE, file |-> file]

\* The body of the loop over template["subdirectories"].items(): one value.
\* "files" in None and iterating None raise TypeError.
ModifyContents(contents, pnumber) ==
    IF ~contents.isDict THEN [raised |-> TRUE, contents |-> contents]
    ELSE IF ~contents.hasFiles THEN [raised |-> FALSE, contents |-> contents]
    ELSE IF ~contents.isList THEN [raised |-> TRUE, contents |-> contents]
    ELSE LET done == [i \in 1..Len(contents.files) |->
                         ModifyFile(contents.files[i], pnumber)]
         IN [raised |-> \E i \in 1..Len(contents.files) : done[i].raised,
             contents |-> [contents EXCEPT
                 !.files = [i \in 1..Len(contents.files) |-> done[i].file]]]

\* modify_template(template, project_number, project_name): the document it
\* returns, or raised when one of its statements raises (None or a list has
\* no item assignment, a missing "subdirectories" is a KeyError, None has no
\* items()).
modify_template(t, pnumber, pname) ==
    IF t.top # "dict" \/ ~t.hasSubs \/ ~t.subsIsDict
    THEN [raised |-> TRUE, doc |-> t]
    ELSE LET done == [i \in 1..Len(t.subdirectories) |->
                         ModifyContents(t.subdirectories[i].contents, pnumber)]
         IN [raised |-> \E i \in 1..Len(t.subdirectories) : done[i].raised,
             doc |-> [t EXCEPT
                 !.hasMain = TRUE,
                 !.main_directory = MainDirectoryName(pnumber, pname),
                 !.subdirectories = [i \in 1..Len(t.subdirectories) |->
                     Subdir(t.subdirectories[i].key, done[i].contents)]]]

-----------------------------------------------------------------------------
(* validate_template.                                                      *)

\* One entry of the errors list: the message and what it names.
Error(msg, subdir, name) == [msg |-> msg, subdir |-> subdir, name |-> name]

\* The concatenation of a sequence of sequences.
RECURSIVE Flatten(_)
Flatten(ss) == IF ss = <<>> THEN <<>> ELSE Head(ss) \o Flatten(Tail(ss))

\* The if/elif chain over one file_info: at most one error per entry.
FileErrors(subdir, file_info) ==
    IF ~file_info.isDict
    THEN <<Error("File entry must be a dictionary", subdir, <<>>)>>
    ELSE IF ~file_info.hasName \/ ~file_info.hasType
    THEN <<Error("File entry must have 'name' and 'type' keys", subdir, <<>>)>>
    ELSE IF file_info.type = "template" /\ ~file_info.hasSource
    THEN <<Error("Template file is missing a 'source' key", subdir, file_info.name)>>
    ELSE IF file_info.type \notin {"empty", "template"}
    THEN <<Error("Invalid file type", subdir, file_info.name)>>
    ELSE <<>>

\* The if/elif chain over one (subdir, contents) item.
SubdirErrors(subdir, contents) ==
    IF ~contents.isDict
    THEN <<Error("Subdirectory must be a dictionary", subdir, <<>>)>>
    ELSE IF ~contents.hasFiles
    THEN <<Error("Subdirectory is missing a 'files' list", subdir, <<>>)>>
    ELSE IF ~contents.isList
    THEN <<Error("'files' must be a list", subdir, <<>>)>>
    ELSE Flatten([i \in 1..Len(contents.files) |->
                     FileErrors(subdir, contents.files[i])])

\* validate_template(template, template_name): the errors it collects and
\* the boolean it returns; raised when template["subdirectories"] is
\* evaluated on a list, where "in" is membership and indexing by a string
\* is a TypeError.
validate_template(t) ==
    LET missing ==
            (IF ~t.hasMain
             THEN <<Error("Missing required key", <<>>, <<"main_directory">>)>>
             ELSE <<>>)
            \o (IF ~t.hasSubs
                THEN <<Error("Missing required key", <<>>, <<"subdirectories">>)>>
                ELSE <<>>)
        notDict ==
            IF t.hasSubs /\ ~t.subsIsDict
            THEN <<Error("'subdirectories' must be a dictionary", <<>>, <<>>)>>
            ELSE <<>>
        inside ==
            IF t.hasSubs /\ t.subsIsDict
            THEN Flatten([i \in 1..Len(t.subdirectories) |->
                             SubdirErrors(t.subdirectories[i].key,
                                          t.subdirectories[i].contents)])
            ELSE <<>>
        all == missing \o notDict \o inside
    IN IF t.top # "dict" /\ t.hasSubs
       THEN [raised |-> TRUE, errors |-> missing, ok |-> FALSE]
       ELSE [raised |-> FALSE, errors |-> all, ok |-> all = <<>>]

-----------------------------------------------------------------------------
(* generate_from_template and generate_default.                            *)

\* "if not template": None and the empty JSON object are falsy.
Falsy(t) == t.top = "none" \/ (t.top = "dict" /\ ~t.hasMain /\ ~t.hasSubs)

\* What one generation carries from statement to statement.
Run(f, out, raised) == [fs |-> f, printed |-> out, raised |-> raised]

\* The body of generate_from_template's loop over contents["files"].
CreateFile(run, subdir_path, file_info, srcs) ==
    LET file_path == JoinPath(subdir_path, file_info.name)
    IN IF file_info.type = "empty"
       THEN [run EXCEPT !.fs = Touch(run.fs, file_path)]
       ELSE IF file_info.type = "template"
       THEN IF file_info.source \in srcs
            THEN [run EXCEPT !.fs = Copy(run.fs, file_info.source, file_path)]
            ELSE [run EXCEPT !.printed = @ \cup
                     {Error("Template file not found", <<>>, file_info.source)}]
       ELSE [run EXCEPT !.printed = @ \cup
                {Error("Unknown file type", <<>>, <<>>)}]

\* The body of generate_default's loop over contents["files"]: only a file
\* of type "empty" is handled.
CreateFileDefault(run, subdir_path, file_info, srcs) ==
    LET file_path == JoinPath(subdir_path, file_info.name)
    IN IF file_info.type = "empty"
       THEN [run EXCEPT !.fs = Touch(run.fs, file_path)]
       ELSE run

\* The loop over contents["files"], from entry i on; default tells which of
\* the two loop bodies runs.
RECURSIVE CreateFiles(_, _, _, _, _, _)
CreateFiles(run, subdir_path, files, i, srcs, default) ==
    IF i > Len(files) THEN run
    ELSE CreateFiles(IF default
                     THEN CreateFileDefault(run, subdir_path, files[i], srcs)
                     ELSE CreateFile(run, subdir_path, files[i], srcs),
                     subdir_path, files, i + 1, srcs, default)

\* The loop over template["subdirectories"].items(), from item i on; an
\* exception of os.makedirs ends the generation where it stands.
RECURSIVE CreateSubdirs(_, _, _, _, _, _)
CreateSubdirs(run, main_dir, subs, i, srcs, default) ==
    IF i > Len(subs) THEN run
    ELSE LET subdir_path == JoinPath(main_dir, subs[i].key)
             made == MakeDirs(run.fs, subdir_path)
         IN IF made.raised
            THEN [run EXCEPT !.raised = TRUE]
            ELSE CreateSubdirs(
                     CreateFiles([run EXCEPT !.fs = made.fs], subdir_path,
                                 subs[i].contents.files, 1, srcs, default),
                     main_dir, subs, i + 1, srcs, default)

\* From main_dir = Path(output_dir) / template["main_directory"] to the end
\* of the loops, on a validated template.
CreateTree(t, f, srcs, default) ==
    LET main_dir == JoinPath(<<>>, t.main_directory)
        made == MakeDirs(f, main_dir)
    IN IF made.raised
       THEN Run(f, {}, TRUE)
       ELSE CreateSubdirs(Run(made.fs, {}, FALSE), main_dir,
                          t.subdirectories, 1, srcs, default)

\* How a call ended, with the document and the filesystem it leaves.
Ended(how, t, run) ==
    [outcome |-> how, template |-> t, fs |-> run.fs, printed |-> run.printed]

\* The rest of either function from "if not template" on, for the document
\* t that the first statements leave.
ValidateAndCreate(t, pnumber, pname, f, srcs, default) ==
    IF Falsy(t) THEN Ended("returned", t, Run(f, {}, FALSE))
    ELSE LET v == validate_template(t)
         IN IF v.raised THEN Ended("raised", t, Run(f, {}, FALSE))
            ELSE IF ~v.ok THEN Ended("aborted", t, Run(f, {}, FALSE))
            ELSE LET m == IF default
                          THEN modify_template(t, pnumber, pname)
                          ELSE [raised |-> FALSE, doc |-> t]
                 IN IF m.raised THEN Ended("raised", m.doc, Run(f, {}, FALSE))
                    ELSE LET run == CreateTree(m.doc, f, srcs, default)
                         IN Ended(IF run.raised THEN "raised" ELSE "generated",
                                  m.doc, run)

\* generate_from_template(template_name, output_dir, project_number,
\* project_name) for the document t that load_template returned.
generate_from_template(t, pnumber, pname, f, srcs) ==
    IF Truthy(pnumber) /\ pname # <<>>
    THEN LET m == modify_template(t, pnumber, pname)
         IN IF m.raised THEN Ended("raised", t, Run(f, {}, FALSE))
            ELSE ValidateAndCreate(m.doc, pnumber, pname, f, srcs, FALSE)
    ELSE ValidateAndCreate(t, pnumber, pname, f, srcs, FALSE)

\* generate_default(project_number, project_name, template_name, output_dir)
\* for the document t that load_template returned.
generate_default(t, pnumber, pname, f, srcs) ==
    IF ~Truthy(pnumber) /\ pname = <<>>
    THEN LET m == modify_template(t, pnumber, pname)
         IN IF m.raised THEN Ended("raised", t, Run(f, {}, FALSE))
            ELSE ValidateAndCreate(m.doc, pnumber, pname, f, srcs, TRUE)
    ELSE ValidateAndCreate(t, pnumber, pname, f, srcs, TRUE)

-----------------------------------------------------------------------------
(* The watcher: JSONFileMonitorService of windows_service.                 *)

\* range(40) of the wait loop of run_directory_manager.
WaitChecks == 40

\* The names of the *.json files of the watched directory (the extension
\* left off).
FileNames == {<<"a">>, <<"b">>}

\* The order of characters that sorted() goes by.
CharRank(c) ==
    CASE c = "\n" -> 0 [] c = "a" -> 1 [] c = "b" -> 2 [] c = "o" -> 3
      [] OTHER -> 4

\* s < t for strings.
RECURSIVE StrLess(_, _)
StrLess(s, t) ==
    IF t = <<>> THEN FALSE
    ELSE IF s = <<>> THEN TRUE
    ELSE IF Head(s) # Head(t) THEN CharRank(Head(s)) < CharRank(Head(t))
    ELSE StrLess(Tail(s), Tail(t))

\* sorted(S) for a set of strings.
RECURSIVE PySorted(_)
PySorted(S) ==
    IF S = {} THEN <<>>
    ELSE LET least == CHOOSE s \in S : \A t \in S \ {s} : StrLess(s, t)
         IN <<least>> \o PySorted(S \ {least})

\* "\n".join(lines)
RECURSIVE Join(_)
Join(lines) ==
    IF lines = <<>> THEN <<>>
    ELSE IF Len(lines) = 1 THEN Head(lines)
    ELSE Head(lines) \o <<"\n">> \o Join(Tail(lines))

\* text.splitlines(), from the line that starts with the characters line.
RECURSIVE SplitFrom(_, _)
SplitFrom(text, line) ==
    IF text = <<>> THEN (IF line = <<>> THEN <<>> ELSE <<line>>)
    ELSE IF Head(text) = "\n" THEN <<line>> \o SplitFrom(Tail(text), <<>>)
    ELSE SplitFrom(Tail(text), Append(line, Head(text)))

SplitLines(text) == SplitFrom(text, <<>>)

\* SEEN_FILES_LOG does not exist.
NoLog == <<"<no file>">>

\* A file of the watched directory: whether it is there, whether json.load
\* parses it, and what data.get returns for the two keys (None when the key
\* is missing).
Descriptor(present, parses, pname, pnumber) ==
    [present |-> present, parses |-> parses,
     project_name |-> pname, project_number |-> pnumber]

NoFile == Descriptor(FALSE, FALSE, NONE, NONE)

\* The files the environment drops: not JSON, a key missing, and
\* descriptors of two projects.
Descriptors ==
    { Descriptor(TRUE, FALSE, NONE, NONE),
      Descriptor(TRUE, TRUE, <<"A">>, NONE),
      Descriptor(TRUE, TRUE, <<"A">>, <<"1">>),
      Descriptor(TRUE, TRUE, <<"B">>, <<"1">>) }

\* The directory name with the number first.
ProjectDirNumberFirst(pname, pnumber) ==
    PyStr(pnumber) \o <<"-">> \o PyStr(pname)

\* f"{project_name}-{project_number}" as run_directory_manager builds it.
ProjectDirName(pname, pnumber) == PyStr(pname) \o <<"-">> \o PyStr(pnumber)

\* The directories under OUTPUT_DIR that the watcher waits for or the
\* generation subprocess makes.
ProjectDirs ==
    {ProjectDirName(d.project_name, d.project_number) : d \in Descriptors}
        \cup {MainDirectoryName(d.project_number, d.project_name) :
                  d \in Descriptors}

\* What the watcher did with one file name: calls of run_directory_manager,
\* what json.load returned, the arguments of each subprocess.run, whether
\* the subprocess exited with success, whether a check found the directory,
\* copies made, how the call ended, and the directories under OUTPUT_DIR
\* and the presence of the descriptor at that moment.
NoHistory ==
    [handed |-> 0, data |-> NoFile, launched |-> <<>>, exit_ok |-> FALSE,
     found |-> FALSE, copies |-> 0, result |-> "none", dirs |-> {},
     kept |-> FALSE]

\* A loop that marks a file seen only when it was processed with success.
MarkSeenOnSuccess(f) ==
    /\ seen_files' = IF history'[f].result = "copied"
                     THEN seen_files \cup {f} ELSE seen_files
    /\ new_files' = new_files \ {f}
    /\ pc' = IF new_files \ {f} = {} THEN "save" ELSE "for"

\* The loop "for filename in new_files" after run_directory_manager
\* returned: seen_files.add(filename), then the next file or the save.
MarkSeen(f) ==
    /\ seen_files' = seen_files \cup {f}
    /\ new_files' = new_files \ {f}
    /\ pc' = IF new_files \ {f} = {} THEN "save" ELSE "for"

\* load_seen_files at the head of monitor_directory: the lines of the log,
\* or the empty set when there is no log or reading it raises.
LoadSeenFiles ==
    /\ pc = "load"
    /\ \/ /\ seen_log # NoLog
          /\ seen_files' = {SplitLines(seen_log)[i] :
                               i \in 1..Len(SplitLines(seen_log))}
       \/ /\ seen_log # NoLog
          /\ seen_files' = {}
       \/ /\ seen_log = NoLog
          /\ seen_files' = {}
    /\ pc' = "loop"
    /\ UNCHANGED <<running, seen_log, watch_dir, new_files, cycle_new,
                   filename, checks, out_dirs, project_vars, history, cycles,
                   drops>>
    /\ UNCHANGED engineVars
    /\ UNCHANGED cloneVars
    /\ UNCHANGED toolVars

\* A loop that goes on polling after the stop flag is set.
PollIgnoringStop ==
    /\ pc = "loop"
    /\ cycles < MaxCycles
    /\ cycles' = cycles + 1
    /\ new_files' = {f \in FileNames : watch_dir[f].present} \ seen_files
    /\ cycle_new' = new_files'
    /\ pc' = IF new_files' = {} THEN "save" ELSE "for"
    /\ UNCHANGED <<running, seen_files, seen_log, watch_dir, filename, checks,
                   out_dirs, project_vars, history, drops>>
    /\ UNCHANGED engineVars
    /\ UNCHANGED cloneVars
    /\ UNCHANGED toolVars

\* "while self.running" found true: the glob and the set difference, or an
\* exception of the glob that the loop logs.
Poll ==
    /\ pc = "loop"
    /\ running
    /\ cycles < MaxCycles
    /\ cycles' = cycles + 1
    /\ \/ LET current_files == {f \in FileNames : watch_dir[f].present}
          IN /\ new_files' = current_files \ seen_files
             /\ cycle_new' = current_files \ seen_files
             /\ pc' = IF current_files \ seen_files = {} THEN "save" ELSE "for"
       \/ /\ new_files' = {}
          /\ cycle_new' = {}
          /\ pc' = "sleep"
    /\ UNCHANGED <<running, seen_files, seen_log, watch_dir, filename, checks,
                   out_dirs, project_vars, history, drops>>
    /\ UNCHANGED engineVars
    /\ UNCHANGED cloneVars
    /\ UNCHANGED toolVars

\* "while self.running" found false: monitor_directory returns.
Exit ==
    /\ pc = "loop"
    /\ ~running
    /\ pc' = "done"
    /\ UNCHANGED <<running, seen_files, seen_log, watch_dir, new_files,
                   cycle_new, filename, checks, out_dirs, project_vars,
                   history, cycles, drops>>
    /\ UNCHANGED engineVars
    /\ UNCHANGED cloneVars
    /\ UNCHANGED toolVars

\* run_directory_manager on a file that is gone or is not JSON: open or
\* json.load raises, the error is logged.
ProcessUnreadable ==
    /\ pc = "for"
    /\ \E f \in new_files :
          /\ ~watch_dir[f].present \/ ~watch_dir[f].parses
          /\ history' = [history EXCEPT ![f].handed = @ + 1,
                                        ![f].result = "error"]
          /\ MarkSeen(f)
    /\ UNCHANGED <<running, seen_log, watch_dir, cycle_new, filename, checks,
                   out_dirs, project_vars, cycles, drops>>
    /\ UNCHANGED engineVars
    /\ UNCHANGED cloneVars
    /\ UNCHANGED toolVars

\* run_directory_manager on a descriptor with a key missing or empty.
ProcessMissingKeys ==
    /\ pc = "for"
    /\ \E f \in new_files :
          /\ watch_dir[f].present /\ watch_dir[f].parses
          /\ ~(Truthy(watch_dir[f].project_name)
               /\ Truthy(watch_dir[f].project_number))
          /\ history' = [history EXCEPT ![f].handed = @ + 1,
                                        ![f].data = watch_dir[f],
                                        ![f].result = "missing keys"]
          /\ MarkSeen(f)
    /\ UNCHANGED <<running, seen_log, watch_dir, cycle_new, filename, checks,
                   out_dirs, project_vars, cycles, drops>>
    /\ UNCHANGED engineVars
    /\ UNCHANGED cloneVars
    /\ UNCHANGED toolVars

\* What the generation subprocess leaves under OUTPUT_DIR: generate_default
\* makes the main directory of the modified template, or returns or raises
\* before it does.
Generated(dirs, created, pname, pnumber) ==
    IF created THEN dirs \cup {MainDirectoryName(pnumber, pname)} ELSE dirs

\* run_directory_manager on a descriptor with both values: subprocess.run
\* with check=True.  The subprocess exits with failure and the error is
\* logged, or it exits with success and the wait loop begins.
Launch ==
    /\ pc = "for"
    /\ \E f \in new_files, created \in BOOLEAN :
          LET d == watch_dir[f]
          IN /\ d.present /\ d.parses
             /\ Truthy(d.project_name) /\ Truthy(d.project_number)
             /\ out_dirs' = Generated(out_dirs, created,
                                      d.project_name, d.project_number)
             /\ \/ /\ history' = [history EXCEPT
                         ![f].handed = @ + 1,
                         ![f].data = d,
                         ![f].launched =
                             Append(@, <<d.project_name, d.project_number>>),
                         ![f].result = "failed",
                         ![f].dirs = out_dirs',
                         ![f].kept = TRUE]
                   /\ MarkSeen(f)
                   /\ UNCHANGED <<filename, checks>>
                \/ /\ history' = [history EXCEPT
                         ![f].handed = @ + 1,
                         ![f].data = d,
                         ![f].launched =
                             Append(@, <<d.project_name, d.project_number>>),
                         ![f].exit_ok = TRUE]
                   /\ filename' = f
                   /\ checks' = 0
                   /\ pc' = "wait"
                   /\ UNCHANGED <<seen_files, new_files>>
    /\ UNCHANGED <<running, seen_log, watch_dir, cycle_new, project_vars,
                   cycles, drops>>
    /\ UNCHANGED engineVars
    /\ UNCHANGED cloneVars
    /\ UNCHANGED toolVars

\* A wait loop that copies the descriptor when it gives up as well.
WaitCheckCopyOnTimeout ==
    /\ pc = "wait"
    /\ LET f == filename
           args == history[f].launched[Len(history[f].launched)]
           project_dir_path == ProjectDirName(args[1], args[2])
       IN IF project_dir_path \in out_dirs
          THEN /\ IF watch_dir[f].present
                  THEN /\ project_vars' =
                             [project_vars EXCEPT ![project_dir_path] = watch_dir[f]]
                       /\ history' = [history EXCEPT ![f].found = TRUE,
                                                     ![f].copies = @ + 1,
                                                     ![f].result = "copied",
                                                     ![f].dirs = out_dirs,
                                                     ![f].kept = TRUE]
                  ELSE /\ project_vars' = project_vars
                       /\ history' = [history EXCEPT ![f].found = TRUE,
                                                     ![f].result = "error",
                                                     ![f].dirs = out_dirs]
               /\ MarkSeen(f)
               /\ checks' = 0
          ELSE /\ project_vars' = project_vars
               /\ IF checks + 1 = WaitChecks
                  THEN /\ history' = [history EXCEPT
                                          ![f].result = "timeout",
                                          ![f].copies = @ + 1,
                                          ![f].dirs = out_dirs,
                                          ![f].kept = watch_dir[f].present]
                       /\ MarkSeen(f)
                       /\ checks' = 0
                  ELSE /\ history' = history
                       /\ checks' = checks + 1
                       /\ UNCHANGED <<seen_files, new_files, pc>>
    /\ UNCHANGED <<running, seen_log, watch_dir, cycle_new, filename,
                   out_dirs, cycles, drops>>
    /\ UNCHANGED engineVars
    /\ UNCHANGED cloneVars
    /\ UNCHANGED toolVars

\* One turn of "for _ in range(40)": the directory is there and the
\* descriptor is copied into it (or copyfile raises, the descriptor being
\* gone), or it is not there and the loop sleeps, or gives up after the
\* last check.
WaitCheck ==
    /\ pc = "wait"
    /\ LET f == filename
           args == history[f].launched[Len(history[f].launched)]
           project_dir_path == ProjectDirName(args[1], args[2])
       IN IF project_dir_path \in out_dirs
          THEN /\ IF watch_dir[f].present
                  THEN /\ project_vars' =
                             [project_vars EXCEPT ![project_dir_path] = watch_dir[f]]
                       /\ history' = [history EXCEPT ![f].found = TRUE,
                                                     ![f].copies = @ + 1,
                                                     ![f].result = "copied",
                                                     ![f].dirs = out_dirs,
                                                     ![f].kept = TRUE]
                  ELSE /\ project_vars' = project_vars
                       /\ history' = [history EXCEPT ![f].found = TRUE,
                                                     ![f].result = "error",
                                                     ![f].dirs = out_dirs]
               /\ MarkSeen(f)
               /\ checks' = 0
          ELSE /\ project_vars' = project_vars
               /\ IF checks + 1 = WaitChecks
                  THEN /\ history' = [history EXCEPT
                                          ![f].result = "timeout",
                                          ![f].dirs = out_dirs,
                                          ![f].kept = watch_dir[f].present]
                       /\ MarkSeen(f)
                       /\ checks' = 0
                  ELSE /\ history' = history
                       /\ checks' = checks + 1
                       /\ UNCHANGED <<seen_files, new_files, pc>>
    /\ UNCHANGED <<running, seen_log, watch_dir, cycle_new, filename,
                   out_dirs, cycles, drops>>
    /\ UNCHANGED engineVars
    /\ UNCHANGED cloneVars
    /\ UNCHANGED toolVars

\* save_seen_files: the sorted names, one a line, or no change when mkdir
\* or the open for writing raises.
SaveSeenFiles ==
    /\ pc = "save"
    /\ \/ seen_log' = Join(PySorted(seen_files))
       \/ seen_log' = seen_log
    /\ pc' = "sleep"
    /\ UNCHANGED <<running, seen_files, watch_dir, new_files, cycle_new,
                   filename, checks, out_dirs, project_vars, history, cycles,
                   drops>>
    /\ UNCHANGED engineVars
    /\ UNCHANGED cloneVars
    /\ UNCHANGED toolVars

\* time.sleep(10) ends.
Sleep ==
    /\ pc = "sleep"
    /\ pc' = "loop"
    /\ UNCHANGED <<running, seen_files, seen_log, watch_dir, new_files,
                   cycle_new, filename, checks, out_dirs, project_vars,
                   history, cycles, drops>>
    /\ UNCHANGED engineVars
    /\ UNCHANGED cloneVars
    /\ UNCHANGED toolVars

\* SvcStop, called by the service control manager on another thread.
SvcStop ==
    /\ running
    /\ pc # "done"
    /\ running' = FALSE
    /\ UNCHANGED <<pc, seen_files, seen_log, watch_dir, new_files, cycle_new,
                   filename, checks, out_dirs, project_vars, history, cycles,
                   drops>>
    /\ UNCHANGED engineVars
    /\ UNCHANGED cloneVars
    /\ UNCHANGED toolVars

\* The environment drops a descriptor file into the watched directory.
DropFile ==
    /\ drops < MaxDrops
    /\ \E f \in FileNames, d \in Descriptors :
          /\ ~watch_dir[f].present
          /\ watch_dir' = [watch_dir EXCEPT ![f] = d]
    /\ drops' = drops + 1
    /\ UNCHANGED <<running, pc, seen_files, seen_log, new_files, cycle_new,
                   filename, checks, out_dirs, project_vars, history, cycles>>
    /\ UNCHANGED engineVars
    /\ UNCHANGED cloneVars
    /\ UNCHANGED toolVars

\* The environment takes a file out of the watched directory.
RemoveFile ==
    /\ drops < MaxDrops
    /\ drops' = drops + 1
    /\ \E f \in FileNames :
          /\ watch_dir[f].present
          /\ watch_dir' = [watch_dir EXCEPT ![f] = NoFile]
    /\ UNCHANGED <<running, pc, seen_files, seen_log, new_files, cycle_new,
                   filename, checks, out_dirs, project_vars, history, cycles>>
    /\ UNCHANGED engineVars
    /\ UNCHANGED cloneVars
    /\ UNCHANGED toolVars

\* The awaited project directory appears under OUTPUT_DIR by another hand
\* (a late sync of the drive, a user).
DirAppears ==
    /\ pc = "wait"
    /\ LET args == history[filename].launched[Len(history[filename].launched)]
           dir == ProjectDirName(args[1], args[2])
       IN /\ dir \notin out_dirs
          /\ out_dirs' = out_dirs \cup {dir}
    /\ UNCHANGED <<running, pc, seen_files, seen_log, watch_dir, new_files,
                   cycle_new, filename, checks, project_vars, history, cycles,
                   drops>>
    /\ UNCHANGED engineVars
    /\ UNCHANGED cloneVars
    /\ UNCHANGED toolVars

\* The engine at rest.
EngineIdle ==
    /\ template = NoDocument
    /\ project_number = <<>>
    /\ project_name = <<>>
    /\ prev = NoDocument
    /\ calls = 0
    /\ op = "none"
    /\ outcome = "none"
    /\ errors = <<>>
    /\ fs = EmptyFs
    /\ fs0 = EmptyFs
    /\ sources = {}
    /\ printed = {}

\* The watcher at rest.
WatchIdle ==
    /\ running = FALSE
    /\ pc = "done"
    /\ seen_files = {}
    /\ seen_log = NoLog
    /\ watch_dir = [f \in FileNames |-> NoFile]
    /\ new_files = {}
    /\ cycle_new = {}
    /\ filename = <<>>
    /\ checks = 0
    /\ out_dirs = {}
    /\ project_vars = [dir \in ProjectDirs |-> NoFile]
    /\ history = [f \in FileNames |-> NoHistory]
    /\ cycles = 0
    /\ drops = 0

-----------------------------------------------------------------------------
(* Cloning a directory into a template.                                    *)

\* The characters validate_directory_path strips from the ends of a path
\* (the last stands for the backtick, which a string here cannot hold).
StripChars ==
    {"!", "@", "#", "$", "%", "^", "&", "*", "(", ")", "_", "+", "=", "{",
     "}", "[", "]", "|", ":", ";", "'", "<", ">", ",", ".", "?", "~", "<backtick>"}

RECURSIVE LStrip(_)
LStrip(s) ==
    IF s # <<>> /\ Head(s) \in StripChars THEN LStrip(Tail(s)) ELSE s

RECURSIVE RStrip(_)
RStrip(s) ==
    IF s # <<>> /\ s[Len(s)] \in StripChars
    THEN RStrip(SubSeq(s, 1, Len(s) - 1)) ELSE s

\* path.strip(chars)
PyStrip(s) == RStrip(LStrip(s))

\* What a path is on disk: "missing" (os.path.exists is false), "file",
\* "other" (it exists and is neither a file nor a directory), "locked" (a
\* directory whose listing raises PermissionError), "dir".
PathKinds == {"missing", "file", "other", "locked", "dir"}

KindOf(kinds, path) ==
    IF path \in DOMAIN kinds THEN kinds[path] ELSE "missing"

\* The tuple validate_directory_path returns: two values on a failure,
\* three on success.
validate_directory_path(kinds, path) ==
    LET cleaned_path == PyStrip(path)
        kind == KindOf(kinds, cleaned_path)
    IN IF kind = "missing"
       THEN <<FALSE, "Path does not exist">>
       ELSE IF kind = "file"
       THEN <<FALSE, "Path is a file, not a directory">>
       ELSE IF kind = "other"
       THEN <<FALSE, "Path is not a valid directory">>
       ELSE IF kind = "locked"
       THEN <<FALSE, "Permission denied: Cannot access directory">>
       ELSE <<TRUE, "Valid directory", cleaned_path>>

\* os.path.basename
RECURSIVE Basename(_)
Basename(path) ==
    IF \E i \in 1..Len(path) : path[i] = "/"
    THEN Basename(Tail(path)) ELSE path

\* A directory of a tree on disk: its path below the root as a sequence of
\* names, the names of its immediate files, and whether it can be listed.
DirNode(path, files, listable) ==
    [path |-> path, files |-> files, listable |-> listable]

\* The path of names joined by os.sep.
RECURSIVE JoinNames(_)
JoinNames(path) ==
    IF path = <<>> THEN <<>>
    ELSE IF Len(path) = 1 THEN Head(path)
    ELSE Head(path) \o <<"/">> \o JoinNames(Tail(path))

\* os.path.relpath(root, cleaned_path)
RelPath(path) == IF path = <<>> THEN <<".">> ELSE JoinNames(path)

\* os.walk(cleaned_path) over a tree whose directories are given top down:
\* a directory is yielded when it and every directory above it can be
\* listed; the error of a listing that fails is ignored.
RECURSIVE Walk(_, _)
Walk(nodes, all) ==
    IF nodes = <<>> THEN <<>>
    ELSE LET node == Head(nodes)
             reached ==
                 \A i \in 1..Len(all) :
                     ( /\ Len(all[i].path) <= Len(node.path)
                       /\ all[i].path = SubSeq(node.path, 1, Len(all[i].path)) )
                     => all[i].listable
         IN (IF reached
             THEN <<[root |-> RelPath(node.path), files |-> node.files]>>
             ELSE <<>>) \o Walk(Tail(nodes), all)

\* The loop over os.walk: one entry a directory, in the order of the walk,
\* keyed by the relative root, "." turned into "".
RECURSIVE WalkEntries(_, _)
WalkEntries(walk, subdirectories) ==
    IF walk = <<>> THEN subdirectories
    ELSE LET relative_root ==
                 IF Head(walk).root = <<".">> THEN <<>> ELSE Head(walk).root
         IN WalkEntries(Tail(walk),
                IF \E i \in 1..Len(subdirectories) :
                       subdirectories[i].key = relative_root
                THEN subdirectories
                ELSE Append(subdirectories,
                            [key |-> relative_root, files |-> Head(walk).files]))

\* save_template: the document is written under the name.
save_template(st, template_name, data) ==
    [n \in DOMAIN st \cup {template_name} |->
        IF n = template_name THEN data ELSE st[n]]

\* clone_directory: the result of validate_directory_path is unpacked into
\* three names, which raises ValueError for a tuple of two.
clone_directory(kinds, trees, st, source, output_template_name) ==
    LET validated == validate_directory_path(kinds, source)
    IN IF Len(validated) # 3
       THEN [outcome |-> "raised", printed |-> <<>>, store |-> st]
       ELSE IF ~validated[1]
       THEN [outcome |-> "returned",
             printed |-> <<<<"ERROR", validated[2]>>>>, store |-> st]
       ELSE [outcome |-> "saved",
             printed |-> <<<<"SUCCESS", validated[2]>>>>,
             store |-> save_template(st, output_template_name,
                          [main_directory |-> Basename(validated[3]),
                           subdirectories |->
                               WalkEntries(Walk(trees[validated[3]],
                                                trees[validated[3]]), <<>>)])]

\* No clone has been asked for.
CloneIdle ==
    /\ path_kind = <<>>
    /\ tree = <<>>
    /\ store = <<>>
    /\ store0 = <<>>
    /\ source_dir = <<>>
    /\ clone_name = <<>>
    /\ clone_outcome = "none"
    /\ clone_printed = <<>>

-----------------------------------------------------------------------------
(* Searching a template.                                                   *)

\* The keys of a file entry that is a dict.
KeyName == <<"n", "a", "m", "e">>

KeyType == <<"t", "y", "p", "e">>

KeySource == <<"s", "o", "u", "r", "c", "e">>

\* "query in f" for a file entry f of a template: f being a dict, the test
\* is whether the query is one of its keys.
InFileEntry(q, f) ==
    \/ f.hasName /\ q = KeyName
    \/ f.hasType /\ q = KeyType
    \/ f.hasSource /\ q = KeySource

\* The loop of search_template over the items of "subdirectories".
RECURSIVE SearchSubdirs(_, _)
SearchSubdirs(subs, q) ==
    IF subs = <<>> THEN <<>>
    ELSE LET subdir == Head(subs).key
             files == Head(subs).contents.files
         IN (IF \/ Contains(subdir, q)
                \/ \E i \in 1..Len(files) : InFileEntry(q, files[i])
             THEN <<subdir>> ELSE <<>>) \o SearchSubdirs(Tail(subs), q)

\* search_template on what load_template returned.
search_template(t, q) ==
    IF Falsy(t)
    THEN [outcome |-> "returned", results |-> <<>>]
    ELSE [outcome |-> "searched", results |-> SearchSubdirs(t.subdirectories, q)]

\* No search has been asked for.
ToolIdle ==
    /\ query = <<>>
    /\ results = <<>>
    /\ defaults_dir = <<>>
    /\ user_created_dir = <<>>
    /\ listed = <<>>
    /\ loaded = <<>>

-----------------------------------------------------------------------------
(* The template store: list_templates and load_template.                   *)

DefaultsPrefix == <<"d", "e", "f", "a", "u", "l", "t", "s", "/">>

UserCreatedPrefix ==
    <<"u", "s", "e", "r", "_", "c", "r", "e", "a", "t", "e", "d", "/">>

\* f"{prefix}{t.name}" for the *.json files t of a directory, in the order
\* of their names.
RECURSIVE Prefixed(_, _)
Prefixed(prefix, names) ==
    IF names = <<>> THEN <<>>
    ELSE <<prefix \o Head(names)>> \o Prefixed(prefix, Tail(names))

\* list_templates: the files of DEFAULT_TEMPLATES_DIR as defaults/, those
\* of TEMPLATES_DIR and those of USER_CREATED_DIR as user_created/.
list_templates(defaults, templates, user_created) ==
    Prefixed(DefaultsPrefix, PySorted(DOMAIN defaults))
        \o Prefixed(UserCreatedPrefix, PySorted(DOMAIN templates))
        \o Prefixed(UserCreatedPrefix, PySorted(DOMAIN user_created))

\* template_name.startswith(prefix)
StartsWith(s, prefix) ==
    Len(s) >= Len(prefix) /\ SubSeq(s, 1, Len(prefix)) = prefix

\* load_template: the document at the path the name resolves to, or None.
load_template(defaults, templates, template_name) ==
    LET in_defaults == StartsWith(template_name, DefaultsPrefix)
        name == IF in_defaults
                THEN PyReplace(template_name, DefaultsPrefix, <<>>)
                ELSE PyReplace(template_name, UserCreatedPrefix, <<>>)
        dir == IF in_defaults THEN defaults ELSE templates
    IN IF name \in DOMAIN dir
       THEN [found |-> TRUE, doc |-> dir[name]]
       ELSE [found |-> FALSE, doc |-> <<>>]

-----------------------------------------------------------------------------
(* Documents of bounded size: at most MaxEntries file entries in all.      *)

\* A null where a file entry is expected.
NullEntry == FileEntry(FALSE, FALSE, <<>>, FALSE, "absent", FALSE, <<>>)

\* The file entries with each key present or absent and each kind of type;
\* an absent type is kept as type = "absent" behind hasType = FALSE.
EntryShapes(names, srcs) ==
    {NullEntry} \cup
    { FileEntry(TRUE, hn, IF hn THEN n ELSE <<>>, ty # "absent", ty,
                hs, IF hs THEN src ELSE <<>>) :
        hn \in BOOLEAN, n \in names,
        ty \in {"absent", "empty", "template", "other"},
        hs \in BOOLEAN, src \in srcs }

\* The values a subdirectory key can map to, holding exactly n file entries.
ContentsWith(entries, n) ==
    IF n = 0
    THEN { Contents(FALSE, FALSE, FALSE, <<>>),
           Contents(TRUE, FALSE, FALSE, <<>>),
           Contents(TRUE, TRUE, FALSE, <<>>),
           FilesOf(<<>>) }
    ELSE { FilesOf(fl) : fl \in [1..n -> entries] }

\* The mappings over distinct keys of the set keys, in every order, with at
\* most budget file entries in all.
RECURSIVE SubdirLists(_, _, _)
SubdirLists(keys, entries, budget) ==
    {<<>>} \cup
    UNION { UNION { { <<Subdir(k, c)>> \o rest :
                        c \in ContentsWith(entries, n),
                        rest \in SubdirLists(keys \ {k}, entries, budget - n) } :
                    n \in 0..budget } :
            k \in keys }

\* The documents json.load can return for such mappings: a JSON object with
\* or without each required key, "subdirectories" a mapping or a null, or a
\* JSON array that holds the two key names or not.
Documents(mains, keys, entries, budget) ==
    { Document("dict", hm, IF hm THEN m ELSE <<>>, TRUE, TRUE, subs) :
        hm \in BOOLEAN, m \in mains, subs \in SubdirLists(keys, entries, budget) }
    \cup { Document("dict", hm, IF hm THEN m ELSE <<>>, hs, FALSE, <<>>) :
        hm \in BOOLEAN, m \in mains, hs \in BOOLEAN }
    \cup { Document("list", hm, <<>>, hs, FALSE, <<>>) :
        hm \in BOOLEAN, hs \in BOOLEAN }

-----------------------------------------------------------------------------
(* Specification SpecValidate: validate_template called on a document.     *)

\* The documents with at most budget file entries.
ValidateDocuments(budget) ==
    Documents({<<"m">>}, {<<>>, <<"d">>},
              EntryShapes({<<"f">>}, {<<"s">>}), budget)

InitValidate ==
    /\ template \in ValidateDocuments(MaxEntries)
    /\ project_number = <<>>
    /\ project_name = <<>>
    /\ prev = template
    /\ calls = 0
    /\ op = "none"
    /\ outcome = "none"
    /\ errors = <<>>
    /\ fs = EmptyFs
    /\ fs0 = EmptyFs
    /\ sources = {}
    /\ printed = {}
    /\ WatchIdle
    /\ CloneIdle
    /\ ToolIdle

\* One call validate_template(template, template_name).
Validate ==
    /\ calls = 0
    /\ LET r == validate_template(template)
       IN /\ errors' = r.errors
          /\ outcome' = IF r.raised THEN "raised"
                        ELSE IF r.ok THEN "valid" ELSE "invalid"
    /\ calls' = 1
    /\ op' = "validate_template"
    /\ UNCHANGED <<template, project_number, project_name, prev, fs, fs0,
                   sources, printed>>
    /\ UNCHANGED watchVars
    /\ UNCHANGED cloneVars
    /\ UNCHANGED toolVars

NextValidate == Validate

SpecValidate == InitValidate /\ [][NextValidate]_vars

-----------------------------------------------------------------------------
(* Specification SpecWatch: one run of the service, from __init__ on, with *)
(* the environment dropping and removing descriptor files.                 *)

\* The logs an earlier run can have left: none, or sorted names one a line.
InitialLogs ==
    {NoLog} \cup {Join(PySorted(S)) : S \in {{<<"o">>}, {<<"a">>, <<"o">>}}}

InitWatch ==
    /\ EngineIdle
    /\ CloneIdle
    /\ ToolIdle
    /\ running = TRUE
    /\ pc = "load"
    /\ seen_files = {}
    /\ seen_log \in InitialLogs
    /\ watch_dir = [f \in FileNames |-> NoFile]
    /\ new_files = {}
    /\ cycle_new = {}
    /\ filename = <<>>
    /\ checks = 0
    /\ out_dirs = {}
    /\ project_vars = [dir \in ProjectDirs |-> NoFile]
    /\ history = [f \in FileNames |-> NoHistory]
    /\ cycles = 0
    /\ drops = 0

NextWatch ==
    \/ LoadSeenFiles
    \/ Poll
    \/ Exit
    \/ ProcessUnreadable
    \/ ProcessMissingKeys
    \/ Launch
    \/ WaitCheck
    \/ SaveSeenFiles
    \/ Sleep
    \/ SvcStop
    \/ DropFile
    \/ RemoveFile
    \/ DirAppears

SpecWatch == InitWatch /\ [][NextWatch]_vars

\* The steps of the thread that runs monitor_directory.
MonitorStep ==
    \/ LoadSeenFiles
    \/ Poll
    \/ Exit
    \/ ProcessUnreadable
    \/ ProcessMissingKeys
    \/ Launch
    \/ WaitCheck
    \/ SaveSeenFiles
    \/ Sleep

\* The service with its thread scheduled: a step of monitor_directory that
\* stays possible is taken (time.sleep ends, the subprocess exits).
SpecWatchFair == SpecWatch /\ WF_vars(MonitorStep)

-----------------------------------------------------------------------------
(* Specification SpecClone: clone_directory on paths of every kind.        *)

\* The paths on disk, one of them with a character at its end that
\* validate_directory_path strips, and the source directories asked for.
ClonePaths == {<<"p">>, <<"q">>, <<"p", "_">>}

CloneSources == ClonePaths \cup {<<"n">>}

CloneNames == {<<"t">>, <<"u">>}

\* An empty directory.
BareTree == << DirNode(<<>>, <<>>, TRUE) >>

\* The trees under a readable directory: an empty one; one with a file, a
\* directory a that holds a file and an empty directory c, and an empty
\* directory b; and one whose directory a cannot be listed.
CloneTrees ==
    { BareTree,
      << DirNode(<<>>, << <<"f">> >>, TRUE),
         DirNode(<< <<"a">> >>, << <<"g">> >>, TRUE),
         DirNode(<< <<"a">>, <<"c">> >>, <<>>, TRUE),
         DirNode(<< <<"b">> >>, <<>>, TRUE) >>,
      << DirNode(<<>>, <<>>, TRUE),
         DirNode(<< <<"a">> >>, << <<"g">> >>, FALSE) >> }

InitClone ==
    /\ EngineIdle
    /\ WatchIdle
    /\ ToolIdle
    /\ path_kind \in [ClonePaths -> PathKinds]
    /\ tree \in [ClonePaths -> CloneTrees]
    /\ \A path \in ClonePaths : path_kind[path] # "dir" => tree[path] = BareTree
    /\ store = <<>>
    /\ store0 = <<>>
    /\ source_dir = <<>>
    /\ clone_name = <<>>
    /\ clone_outcome = "none"
    /\ clone_printed = <<>>

\* One call clone_directory(source_dir, output_template_name).
Clone ==
    /\ \E source \in CloneSources, output_template_name \in CloneNames :
          LET r == clone_directory(path_kind, tree, store, source,
                                   output_template_name)
          IN /\ source_dir' = source
             /\ clone_name' = output_template_name
             /\ store0' = store
             /\ store' = r.store
             /\ clone_outcome' = r.outcome
             /\ clone_printed' = r.printed
    /\ UNCHANGED <<path_kind, tree>>
    /\ UNCHANGED engineVars
    /\ UNCHANGED watchVars
    /\ UNCHANGED toolVars

NextClone == Clone

SpecClone == InitClone /\ [][NextClone]_vars

-----------------------------------------------------------------------------
(* Specification SpecSearch: search_template on a stored schema template.  *)

SearchKeys == {<<"d">>, <<"e", "f">>}

SearchEntries ==
    { EmptyFile(<<"f">>), EmptyFile(<<"d", "g">>),
      TemplateFile(<<"h">>, <<"s">>) }

SearchQueries ==
    {<<>>, <<"f">>, <<"d">>, <<"z">>, KeyName, KeyType, KeySource}

\* No stored template of the name, and the stored templates of the schema
\* with at most budget file entries.
SearchDocuments(budget) ==
    {NoDocument} \cup
    { t \in Documents({<<"m">>}, SearchKeys, SearchEntries, budget) :
        validate_template(t).ok }

InitSearch ==
    /\ template \in SearchDocuments(MaxSearchEntries)
    /\ project_number = <<>>
    /\ project_name = <<>>
    /\ prev = template
    /\ calls = 0
    /\ op = "none"
    /\ outcome = "none"
    /\ errors = <<>>
    /\ fs = EmptyFs
    /\ fs0 = EmptyFs
    /\ sources = {}
    /\ printed = {}
    /\ WatchIdle
    /\ CloneIdle
    /\ ToolIdle

\* One call search_template(template_name, query).
Search ==
    /\ calls = 0
    /\ \E q \in SearchQueries :
          LET r == search_template(template, q)
          IN /\ query' = q
             /\ results' = r.results
             /\ outcome' = r.outcome
    /\ op' = "search_template"
    /\ calls' = calls + 1
    /\ UNCHANGED <<defaults_dir, user_created_dir, listed, loaded>>
    /\ UNCHANGED <<template, project_number, project_name, prev, errors, fs,
                   fs0, sources, printed>>
    /\ UNCHANGED watchVars
    /\ UNCHANGED cloneVars

NextSearch == Search

SpecSearch == InitSearch /\ [][NextSearch]_vars

-----------------------------------------------------------------------------
(* Specification SpecStore: saves, files placed in the template            *)
(* directories, and list_templates followed by load_template.              *)

\* Names of template files (the extension left off).
StoreNames == {<<"a">>, <<"b">>}

StoreDocuments ==
    { [main_directory |-> <<"m">>, subdirectories |-> <<>>],
      [main_directory |-> <<"n">>, subdirectories |-> <<>>] }

InitStore ==
    /\ EngineIdle
    /\ WatchIdle
    /\ CloneIdle
    /\ ToolIdle

\* save_template(template_name, data, is_default).
SaveTemplate ==
    /\ \E name \in StoreNames, data \in StoreDocuments, is_default \in BOOLEAN :
          IF is_default
          THEN /\ defaults_dir' = save_template(defaults_dir, name, data)
               /\ UNCHANGED <<store, store0>>
          ELSE /\ store' = save_template(store, name, data)
               /\ store0' = store
               /\ UNCHANGED defaults_dir
    /\ op' = "save_template"
    /\ UNCHANGED <<template, project_number, project_name, prev, calls,
                   outcome, errors, fs, fs0, sources, printed>>
    /\ UNCHANGED watchVars
    /\ UNCHANGED <<path_kind, tree, source_dir, clone_name, clone_outcome,
                   clone_printed>>
    /\ UNCHANGED <<query, results, user_created_dir, listed, loaded>>

\* A JSON file is placed in DEFAULT_TEMPLATES_DIR or in USER_CREATED_DIR by
\* hand.
PlaceFile ==
    /\ \E name \in StoreNames, data \in StoreDocuments :
          \/ /\ defaults_dir' = save_template(defaults_dir, name, data)
             /\ UNCHANGED user_created_dir
          \/ /\ user_created_dir' = save_template(user_created_dir, name, data)
             /\ UNCHANGED defaults_dir
    /\ op' = "place"
    /\ UNCHANGED <<template, project_number, project_name, prev, calls,
                   outcome, errors, fs, fs0, sources, printed>>
    /\ UNCHANGED watchVars
    /\ UNCHANGED cloneVars
    /\ UNCHANGED <<query, results, listed, loaded>>

\* The menu lists the templates and loads each listed name.
ListAndLoad ==
    /\ listed' = list_templates(defaults_dir, store, user_created_dir)
    /\ loaded' = [i \in 1..Len(listed') |->
                     load_template(defaults_dir, store, listed'[i])]
    /\ op' = "list_templates"
    /\ UNCHANGED <<template, project_number, project_name, prev, calls,
                   outcome, errors, fs, fs0, sources, printed>>
    /\ UNCHANGED watchVars
    /\ UNCHANGED cloneVars
    /\ UNCHANGED <<query, results, defaults_dir, user_created_dir>>

NextStore == SaveTemplate \/ PlaceFile \/ ListAndLoad

SpecStore == InitStore /\ [][NextStore]_vars

-----------------------------------------------------------------------------
(* Claims about validate_template (C3), under SpecValidate.                *)

\* The condition C3 gives for success, read off the document.
ValidAsClaimed(t) ==
    /\ t.top = "dict"
    /\ t.hasMain /\ t.hasSubs
    /\ t.subsIsDict
    /\ \A i \in 1..Len(t.subdirectories) :
          LET c == t.subdirectories[i].contents
          IN /\ c.isDict /\ c.hasFiles /\ c.isList
             /\ \A j \in 1..Len(c.files) :
                   LET f == c.files[j]
                   IN /\ f.isDict /\ f.hasName /\ f.hasType
                      /\ f.type \in {"empty", "template"}
                      /\ f.type = "template" => f.hasSource

\* C3: validate_template returns success if and only if the document has
\* both keys, subdirectories is a mapping, every value has a files list,
\* every entry has name and type, type is "empty" or "template" and every
\* "template" entry has source; it returns failure for every other document.
C3_ValidateIffWellFormed ==
    calls = 1 =>
        /\ outcome = "valid" <=> ValidAsClaimed(template)
        /\ ~ValidAsClaimed(template) => outcome = "invalid"

\* C3 on JSON objects: for every document that is a JSON object the call
\* returns, with success exactly for the documents of the claim.
C3_OnObjects ==
    calls = 1 /\ template.top = "dict" =>
        /\ outcome \in {"valid", "invalid"}
        /\ outcome = "valid" <=> ValidAsClaimed(template)
        /\ outcome = "valid" <=> errors = <<>>

-----------------------------------------------------------------------------
(* Specification SpecModify: modify_template called, and called again, on  *)
(* a template of the schema with string arguments.                         *)

ModifyChars == {"x", "a"}

ModifyNames == StrUpTo(ModifyChars, MaxNameLen)

ModifyNumbers == StrUpTo(ModifyChars, MaxNumLen)

ModifyTemplates ==
    { TemplateOf(<<"m">>,
                 << Subdir(<<"d">>, FilesOf(<<f1, f2>>)),
                    Subdir(<<>>, FilesOf(<<f3>>)) >>) :
        f1 \in {EmptyFile(n) : n \in ModifyNames},
        f2 \in {TemplateFile(<<"a">>, <<"s">>)},
        f3 \in {EmptyFile(Token), TemplateFile(Token \o <<"a">> \o Token, <<"s">>)} }

InitModify ==
    /\ template \in ModifyTemplates
    /\ project_number \in ModifyNumbers
    /\ project_name \in {<<"P">>, <<>>}
    /\ prev = template
    /\ calls = 0
    /\ op = "none"
    /\ outcome = "none"
    /\ errors = <<>>
    /\ fs = EmptyFs
    /\ fs0 = EmptyFs
    /\ sources = {}
    /\ printed = {}
    /\ WatchIdle
    /\ CloneIdle
    /\ ToolIdle

\* One call modify_template(template, project_number, project_name); the
\* template is mutated in place.
Modify ==
    /\ calls < 2
    /\ LET r == modify_template(template, project_number, project_name)
       IN /\ template' = r.doc
          /\ outcome' = IF r.raised THEN "raised" ELSE "modified"
    /\ prev' = template
    /\ calls' = calls + 1
    /\ op' = "modify_template"
    /\ UNCHANGED <<project_number, project_name, errors, fs, fs0, sources, printed>>
    /\ UNCHANGED watchVars
    /\ UNCHANGED cloneVars
    /\ UNCHANGED toolVars

NextModify == Modify

SpecModify == InitModify /\ [][NextModify]_vars

-----------------------------------------------------------------------------
(* Specification SpecGenerate: one call of generate_from_template or of    *)
(* generate_default on a loaded document, valid or not.                    *)

\* File entries of the schema and entries that break it in each way.
GenerateEntries ==
    { EmptyFile(<<"f">>), EmptyFile(Token),
      TemplateFile(<<"g">>, <<"s">>), TemplateFile(<<"h">>, <<"t">>),
      FileEntry(TRUE, TRUE, <<"g">>, TRUE, "template", FALSE, <<>>),
      FileEntry(TRUE, TRUE, <<"f">>, TRUE, "other", FALSE, <<>>),
      FileEntry(TRUE, TRUE, <<"f">>, FALSE, "absent", FALSE, <<>>),
      NullEntry }

\* No document, and the documents with at most budget file entries.
GenerateDocuments(budget) ==
    {NoDocument} \cup
    Documents({<<"m">>}, {<<>>, <<"d">>}, GenerateEntries, budget)

\* (project_number, project_name) as the menu and the command line pass
\* them: both given, both empty, both left out.
GenerateArguments ==
    { <<<<"7">>, <<"P">>>>, <<<<>>, <<>>>>, <<NONE, NONE>> }

\* An output directory that already holds a project with one file.
UsedFs ==
    [dirs |-> {<<<<"P", "-", "7">>>>, <<<<"P", "-", "7">>, <<"d">>>>},
     files |-> (<<<<"P", "-", "7">>, <<"d">>, <<"f">>>> :> <<"o">>)]

InitGenerate ==
    /\ template \in GenerateDocuments(MaxGenEntries)
    /\ \E a \in GenerateArguments :
          /\ project_number = a[1]
          /\ project_name = a[2]
    /\ prev = template
    /\ calls = 0
    /\ op = "none"
    /\ outcome = "none"
    /\ errors = <<>>
    /\ fs \in {EmptyFs, UsedFs}
    /\ fs0 = fs
    /\ sources \in {{}, {<<"s">>}}
    /\ printed = {}
    /\ WatchIdle
    /\ CloneIdle
    /\ ToolIdle

\* The state a finished call leaves.
Finish(name, r) ==
    /\ template' = r.template
    /\ outcome' = r.outcome
    /\ fs' = r.fs
    /\ printed' = r.printed
    /\ prev' = template
    /\ fs0' = fs
    /\ calls' = calls + 1
    /\ op' = name
    /\ UNCHANGED <<project_number, project_name, sources, errors>>
    /\ UNCHANGED watchVars
    /\ UNCHANGED cloneVars
    /\ UNCHANGED toolVars

\* The menu's "Generate Directory Templates": one call of
\* generate_from_template.
GenerateFromTemplate ==
    /\ calls = 0
    /\ Finish("generate_from_template",
              generate_from_template(template, project_number, project_name,
                                     fs, sources))

\* The command line's --generate: one call of generate_default.
GenerateDefault ==
    /\ calls = 0
    /\ Finish("generate_default",
              generate_default(template, project_number, project_name,
                               fs, sources))

NextGenerate == GenerateFromTemplate \/ GenerateDefault

SpecGenerate == InitGenerate /\ [][NextGenerate]_vars

-----------------------------------------------------------------------------
(* Claims about modify_template (C4, C5), under SpecModify.                *)

\* The places where old occurs in s.
Occurrences(s, old) ==
    {i \in 1..(Len(s) - Len(old) + 1) : SubSeq(s, i, i + Len(old) - 1) = old}

\* s with the occurrences of old that start at the places P cut out and new
\* put in their place.
RECURSIVE Splice(_, _, _, _, _)
Splice(s, P, old, new, i) ==
    IF i > Len(s) THEN <<>>
    ELSE IF i \in P THEN new \o Splice(s, P, old, new, i + Len(old))
         ELSE <<s[i]>> \o Splice(s, P, old, new, i + 1)

\* r is s with every occurrence of old replaced by new: the occurrences
\* taken do not overlap, and an occurrence not taken overlaps one taken
\* that starts before it.
IsReplaceAll(s, r, old, new) ==
    \E P \in SUBSET Occurrences(s, old) :
        /\ \A p, q \in P : p < q => p + Len(old) <= q
        /\ \A q \in Occurrences(s, old) \ P :
              \E p \in P : p < q /\ q < p + Len(old)
        /\ r = Splice(s, P, old, new, 1)

\* File entry g is file entry f with only its name rewritten.
SameButName(f, g) == [g EXCEPT !.name = f.name] = f

\* Document new is document old as the claim says modify leaves it.
ModifiedAsClaimed(old, new) ==
    /\ new.main_directory = project_name \o <<"-">> \o project_number
    /\ Len(new.subdirectories) = Len(old.subdirectories)
    /\ \A i \in 1..Len(old.subdirectories) :
          LET o == old.subdirectories[i]
              n == new.subdirectories[i]
          IN /\ n.key = o.key
             /\ Len(n.contents.files) = Len(o.contents.files)
             /\ \A j \in 1..Len(o.contents.files) :
                   /\ SameButName(o.contents.files[j], n.contents.files[j])
                   /\ IsReplaceAll(o.contents.files[j].name,
                                   n.contents.files[j].name,
                                   Token, project_number)

C5_IdempotentForEveryNumber == calls = 2 => template = prev

\* A project number that does not begin with x, does not end with x and
\* does not hold the token.
TokenFree(pnumber) ==
    /\ pnumber # <<>> => Head(pnumber) # "x" /\ pnumber[Len(pnumber)] # "x"
    /\ ~Contains(pnumber, Token)

\* C5 amended: for a project_number that neither begins nor ends with "x"
\* and does not contain "xxxxx", a second call of modify with the same
\* arguments leaves the template as the first call left it.
C5_IdempotentForTokenFreeNumber ==
    calls = 2 /\ TokenFree(project_number) => template = prev

\* C5 witness: a second call, with a number that holds an x inside, found
\* the names the first call rewrote and left them.
C5_Witness ==
    /\ calls = 2
    /\ project_number = <<"a", "x", "a">>
    /\ template = prev
    /\ template.subdirectories[2].contents.files[1].name
          = <<"a", "x", "a", "a", "a", "x", "a">>

-----------------------------------------------------------------------------
(* Claims about generation (C1, C2, C9), under SpecGenerate.               *)

\* The directories a generated template declares: the main directory and
\* one directory per subdirectory key.
DeclaredDirs(t) ==
    LET main_dir == JoinPath(<<>>, t.main_directory)
    IN Prefixes(main_dir) \cup
       {JoinPath(main_dir, t.subdirectories[i].key) :
            i \in 1..Len(t.subdirectories)}

\* The places of the file entries of t: <<i, j>> is entry j of item i.
EntriesOf(t) ==
    {ij \in (1..Len(t.subdirectories)) \X (1..MaxGenEntries + 1) :
        ij[2] <= Len(t.subdirectories[ij[1]].contents.files)}

EntryAt(t, ij) == t.subdirectories[ij[1]].contents.files[ij[2]]

\* The target path of the file entry at ij.
TargetOf(t, ij) ==
    JoinPath(JoinPath(JoinPath(<<>>, t.main_directory),
                      t.subdirectories[ij[1]].key),
             EntryAt(t, ij).name)

\* A "template" entry whose source does not exist.
SourceMissing(t, ij) ==
    EntryAt(t, ij).type = "template" /\ EntryAt(t, ij).source \notin sources

\* C1: a generate call on a document that fails validation returns without
\* creating or changing any directory or file.
C1_InvalidTemplateNoEffect ==
    calls = 1 /\ ~ValidAsClaimed(prev) => fs = fs0

\* Where generation stops for an invalid template it has changed nothing.
AbortLeavesFilesystem ==
    calls = 1 /\ outcome \in {"returned", "aborted"} => fs = fs0

\* C2: for every valid template, generate into an empty output directory
\* produces exactly the declared tree: one directory per subdirectory key
\* and one file per declared file entry, none missing and nothing extra.
\* (An entry whose source is missing is left out of the count, as C9 has
\* it skipped.)
C2_TreeMatchesTemplate ==
    calls = 1 /\ ValidAsClaimed(prev) /\ fs0 = EmptyFs =>
        /\ outcome = "generated"
        /\ fs.dirs = DeclaredDirs(template)
        /\ DOMAIN fs.files =
              {TargetOf(template, ij) :
                  ij \in {e \in EntriesOf(template) : ~SourceMissing(template, e)}}

\* C2 for generate_from_template alone.
FromTemplateTreeMatches ==
    op = "generate_from_template" => C2_TreeMatchesTemplate

\* C9: in a generation of a valid template, a "template" entry whose source
\* does not exist is skipped with a warning, and every other entry, of that
\* subdirectory and of the later ones, is still created.
C9_MissingSourceSkipped ==
    calls = 1 /\ ValidAsClaimed(prev)
        /\ (\E ij \in EntriesOf(template) : SourceMissing(template, ij)) =>
        /\ outcome = "generated"
        /\ \A ij \in EntriesOf(template) :
              IF SourceMissing(template, ij)
              THEN Error("Template file not found", <<>>,
                         EntryAt(template, ij).source) \in printed
              ELSE TargetOf(template, ij) \in DOMAIN fs.files

\* C9 for generate_from_template alone.
FromTemplateMissingSourceSkipped ==
    op = "generate_from_template" => C9_MissingSourceSkipped

-----------------------------------------------------------------------------
(* Claims about the watcher (C6, C7, C8)                                   *)

\* <project_name>-<project_number> of the descriptor that was read as f.
DescriptorDir(f) ==
    PyStr(history[f].data.project_name) \o <<"-">>
        \o PyStr(history[f].data.project_number)

\* run_directory_manager has returned for f, whose descriptor held a
\* non-empty project_name and project_number.
Processed(f) ==
    /\ history[f].handed > 0
    /\ ~(pc \in {"wait"} /\ filename = f)
    /\ history[f].data.parses
    /\ Truthy(history[f].data.project_name)
    /\ Truthy(history[f].data.project_number)

\* The file name is seen and generation was invoked once, with the two
\* values of the descriptor.
SeenAndLaunchedOnce(f) ==
    /\ f \in seen_files
    /\ history[f].launched =
           <<<<history[f].data.project_name, history[f].data.project_number>>>>

\* The descriptor was copied to project_vars.json of its directory.
DescriptorCopied(f) ==
    /\ history[f].result = "copied"
    /\ history[f].copies = 1
    /\ project_vars[DescriptorDir(f)].present

C7_NoReprocessing ==
    /\ \A f \in FileNames : history[f].handed <= 1
    /\ pc \in {"save", "sleep", "loop", "done"} => cycle_new \subseteq seen_files
    /\ \A f \in FileNames : history[f].handed = 1 /\ ~(f \in new_files) => f \in seen_files

\* A second poll cycle has passed over a file that stays in the watched
\* directory after its processing timed out, and another whose processing
\* failed otherwise is seen as well.
C7_Witness ==
    /\ cycles >= 2
    /\ pc = "sleep"
    /\ \E f \in FileNames :
          /\ watch_dir[f].present
          /\ history[f].handed = 1
          /\ history[f].result = "timeout"
          /\ f \in seen_files
    /\ \E g \in FileNames :
          /\ history[g].result \in {"error", "missing keys", "failed"}
          /\ g \in seen_files

\* The names the persisted log holds.
Logged(log) ==
    IF log = NoLog THEN {}
    ELSE {SplitLines(log)[i] : i \in 1..Len(SplitLines(log))}

\* C8: a file name that is in the seen set, in memory or in the persisted
\* log, is never removed from it, across start-up, poll cycles and writes
\* of the log.
C8_SeenOnlyGrows ==
    [][ /\ seen_files \subseteq seen_files'
        /\ Logged(seen_log) \subseteq Logged(seen_log') ]_vars

-----------------------------------------------------------------------------
(* Claims about clone_directory (C10)                                      *)

\* The last clone_directory was given a source that does not exist, is not
\* a directory or cannot be listed.
CloneOfBadSource ==
    /\ clone_outcome # "none"
    /\ KindOf(path_kind, source_dir) # "dir"

\* The category of error the caller is owed for a source of each kind.
CategoryOf(kind) ==
    CASE kind = "missing" -> {"Path does not exist"}
      [] kind = "locked" -> {"Permission denied: Cannot access directory"}
      [] OTHER -> {"Path is a file, not a directory",
                   "Path is not a valid directory"}

\* C10: clone_directory on a source that does not exist, is not a
\* directory or is not readable returns to its caller with an error of the
\* matching category (not found, not a directory, permission denied) and
\* saves no template.
C10_CloneFailureCategorized ==
    CloneOfBadSource =>
        /\ clone_outcome = "returned"
        /\ \E msg \in CategoryOf(KindOf(path_kind, source_dir)) :
               clone_printed = <<<<"ERROR", msg>>>>
        /\ store = store0

\* What does hold of a bad source whose path the strip leaves alone: no
\* template is saved.
CloneFailureSavesNothing ==
    CloneOfBadSource /\ PyStrip(source_dir) = source_dir => store = store0

-----------------------------------------------------------------------------
(* Claims about the template clone_directory saves (C11)                   *)

\* The last clone_directory was given a readable directory.
CloneOfReadableDir ==
    /\ clone_outcome # "none"
    /\ KindOf(path_kind, source_dir) = "dir"

\* One entry a directory of the tree: its path relative to the root, the
\* root as the empty string, with the names of its immediate files.
EntriesOfTree(nodes) ==
    {[key |-> JoinNames(nodes[i].path), files |-> nodes[i].files] :
        i \in 1..Len(nodes)}

\* The template saved by the last clone holds exactly the entries of the
\* tree under the source, each key once.
SavedTreeOf(source) ==
    /\ clone_outcome = "saved"
    /\ clone_name \in DOMAIN store
    /\ LET saved == store[clone_name].subdirectories
       IN /\ {saved[i] : i \in 1..Len(saved)} = EntriesOfTree(tree[source])
          /\ \A i, j \in 1..Len(saved) : saved[i].key = saved[j].key => i = j

\* C11: clone_directory of a readable directory saves a template with
\* exactly one subdirectory entry per directory of the tree, keyed by the
\* path relative to the root (the root by the empty string), whose files
\* are the names of the immediate files of that directory; an empty
\* directory has an empty list.
C11_CloneRecordsEveryDirectory ==
    CloneOfReadableDir => SavedTreeOf(source_dir)

\* C11 holds of a source whose path the strip leaves alone and whose
\* directories can all be listed.
CloneRecordsListableTree ==
    ( /\ CloneOfReadableDir
      /\ PyStrip(source_dir) = source_dir
      /\ \A i \in 1..Len(tree[source_dir]) : tree[source_dir][i].listable )
    => SavedTreeOf(source_dir)

-----------------------------------------------------------------------------
(* Claims about search_template (C12)                                      *)

\* A search of a stored template has been made.
Searched == op = "search_template" /\ outcome = "searched"

\* The keys, in mapping order, such that the query is a substring of the
\* key or of the name of a file entry of the subdirectory.
RECURSIVE MatchingKeys(_, _)
MatchingKeys(subs, q) ==
    IF subs = <<>> THEN <<>>
    ELSE (IF \/ Contains(Head(subs).key, q)
             \/ \E i \in 1..Len(Head(subs).contents.files) :
                    Contains(Head(subs).contents.files[i].name, q)
          THEN <<Head(subs).key>> ELSE <<>>) \o MatchingKeys(Tail(subs), q)

\* C12: search_template on a stored schema template yields, in mapping
\* order, exactly the subdirectory keys such that the query is a substring
\* of the key or of the name of a file entry of the subdirectory, each key
\* at most once.
C12_SearchMatchesKeysAndNames ==
    Searched => results = MatchingKeys(template.subdirectories, query)

\* The keys, in mapping order, that hold the query themselves.
RECURSIVE KeysHolding(_, _)
KeysHolding(subs, q) ==
    IF subs = <<>> THEN <<>>
    ELSE (IF Contains(Head(subs).key, q) THEN <<Head(subs).key>> ELSE <<>>)
             \o KeysHolding(Tail(subs), q)

\* What does hold: no key is listed twice, and for a query that is not a
\* key of a file entry the result is the keys that hold the query.
SearchMatchesKeys ==
    Searched =>
        /\ \A i, j \in 1..Len(results) : results[i] = results[j] => i = j
        /\ query \notin {KeyName, KeyType, KeySource} =>
               results = KeysHolding(template.subdirectories, query)

-----------------------------------------------------------------------------
(* Claims about stopping the watcher (C13), under SpecWatchFair            *)

\* C13: the stop flag is looked at once a poll cycle.  Once SvcStop has
\* set it, no further poll cycle starts; the cycle in progress is carried
\* to its end, every file it found new being processed and marked seen; and
\* monitor_directory then returns.
C13_StopObservedOncePerCycle ==
    /\ [][~running => cycles' = cycles]_vars
    /\ [](pc = "done" => ~running /\ new_files = {} /\ cycle_new \subseteq seen_files)
    /\ (~running ~> pc = "done")

\* monitor_directory has returned after a stop request that came while a
\* poll cycle with a new file was in progress or had been made.
C13_Witness ==
    /\ pc = "done"
    /\ ~running
    /\ cycles >= 1
    /\ cycle_new # {}
    /\ cycle_new \subseteq seen_files

-----------------------------------------------------------------------------
(* Claims about the wait loop of run_directory_manager (C14)               *)

\* A step that makes one check for the output directory of file f.
CheckOf(f) ==
    /\ pc = "wait"
    /\ filename = f
    /\ checks' # checks \/ pc' # "wait"

\* The check of this step finds the directory of f.
DirFound(f) == DescriptorDir(f) \in out_dirs

\* The step ends the loop with one copy of the descriptor as it is now.
CopiesAndStops(f) ==
    /\ history'[f].copies = history[f].copies + 1
    /\ project_vars'[DescriptorDir(f)] = watch_dir[f]
    /\ pc' # "wait"

\* The step copies nothing.
CopiesNothing(f) ==
    /\ history'[f].copies = history[f].copies
    /\ project_vars' = project_vars

\* A check that does not find the directory copies nothing; the loop goes
\* on, or after the last of the 40 checks ends with a timeout error.
MissAsClaimed(f) ==
    /\ CopiesNothing(f)
    /\ IF checks + 1 = WaitChecks
       THEN history'[f].result = "timeout" /\ pc' # "wait"
       ELSE checks' = checks + 1 /\ pc' = "wait"

\* Checks are made only after the subprocess has exited with success, at
\* most 40 of them; a failed subprocess is followed by no check and no
\* copy; no descriptor is copied twice, and none after a timeout.
ChecksFollowSuccess ==
    /\ pc = "wait" => history[filename].exit_ok /\ checks < WaitChecks
    /\ \A f \in FileNames :
          /\ history[f].result = "failed" =>
                 ~history[f].exit_ok /\ ~history[f].found
                     /\ history[f].copies = 0
          /\ history[f].copies <= 1
          /\ history[f].result = "timeout" => history[f].copies = 0

\* C14 as stated: the checks follow the exit of the subprocess, at most 40
\* of them; the first check that finds the directory copies the descriptor
\* once and ends the loop; when no check finds it nothing is copied and a
\* timeout is logged; after a failed subprocess there is no check and no
\* copy.
C14_CopyAtFirstCheckThatFinds ==
    /\ []ChecksFollowSuccess
    /\ [][\A f \in FileNames :
             CheckOf(f) =>
                 IF DirFound(f) THEN CopiesAndStops(f) ELSE MissAsClaimed(f)]_vars

\* C14, amended: as stated, but the first check that finds the directory
\* copies the descriptor only if the descriptor file is still in the
\* watched directory; if it is not, the copy raises, the error is logged,
\* nothing is copied and the loop ends all the same.
C14_CopyAtFirstCheckIfDescriptorKept ==
    /\ []ChecksFollowSuccess
    /\ [][\A f \in FileNames :
             CheckOf(f) =>
                 IF DirFound(f)
                 THEN IF watch_dir[f].present
                      THEN CopiesAndStops(f)
                      ELSE /\ CopiesNothing(f)
                           /\ history'[f].result = "error"
                           /\ pc' # "wait"
                 ELSE MissAsClaimed(f)]_vars

\* One descriptor was copied once and another timed out with no copy.
C14_Witness ==
    \E f, g \in FileNames :
        /\ history[f].result = "copied"
        /\ history[f].copies = 1
        /\ history[g].result = "timeout"
        /\ history[g].copies = 0
        /\ history[g].exit_ok

-----------------------------------------------------------------------------
(* Claims about files of type "empty" (C15), under SpecGenerate            *)

\* A generation of a valid template has run to its end.
GenerationCompleted ==
    calls = 1 /\ ValidAsClaimed(prev) /\ outcome = "generated"

\* The file entries of type "empty" of the generated template.
EmptyEntries ==
    {ij \in EntriesOf(template) : EntryAt(template, ij).type = "empty"}

\* C15: after a generation of a valid template has completed, the target of
\* every file entry of type "empty" is a file of length zero, also when a
\* file with content was at that path before the call.
C15_EmptyEntriesZeroLength ==
    GenerationCompleted =>
        \A ij \in EmptyEntries :
            /\ TargetOf(template, ij) \in DOMAIN fs.files
            /\ fs.files[TargetOf(template, ij)] = <<>>

\* What does hold: an entry of type "empty" whose name the substitution has
\* not emptied has a file at its target, and the file has length zero
\* unless a file was there before the call or an entry of type "template"
\* of the same name was copied there.
EmptyEntriesExist ==
    GenerationCompleted =>
        \A ij \in EmptyEntries :
            \/ EntryAt(template, ij).name = <<>>
            \/ /\ TargetOf(template, ij) \in DOMAIN fs.files
               /\ \/ fs.files[TargetOf(template, ij)] = <<>>
                  \/ TargetOf(template, ij) \in DOMAIN fs0.files
                  \/ \E e \in EntriesOf(template) :
                        /\ EntryAt(template, e).type = "template"
                        /\ TargetOf(template, e) = TargetOf(template, ij)

-----------------------------------------------------------------------------
(* Claims about the template store (C16), under SpecStore                  *)

\* The documents of the files list_templates enumerated, in its order.
RECURSIVE DocumentsOf(_, _)
DocumentsOf(dir, names) ==
    IF names = <<>> THEN <<>>
    ELSE <<dir[Head(names)]>> \o DocumentsOf(dir, Tail(names))

EnumeratedDocuments ==
    DocumentsOf(defaults_dir, PySorted(DOMAIN defaults_dir))
        \o DocumentsOf(store, PySorted(DOMAIN store))
        \o DocumentsOf(user_created_dir, PySorted(DOMAIN user_created_dir))

\* C16: after saves and placements of JSON files in the template
\* directories, every name list_templates returns is resolved by
\* load_template to the file that was enumerated, never to None, and no
\* name is returned twice.
C16_ListedNamesLoadTheirFiles ==
    op = "list_templates" =>
        /\ Len(listed) = Len(EnumeratedDocuments)
        /\ \A i \in 1..Len(listed) :
              /\ loaded[i].found
              /\ loaded[i].doc = EnumeratedDocuments[i]
        /\ \A i, j \in 1..Len(listed) : listed[i] = listed[j] => i = j

\* C16 holds while USER_CREATED_DIR holds no file.
ListedNamesLoadWithoutUserCreatedDir ==
    user_created_dir = <<>> => C16_ListedNamesLoadTheirFiles

=============================================================================
